---- MODULE Spec2Model ----
(***************************************************************************)
(* A model of the webhook signature verifier of the Chargily Pay client    *)
(* (src/src/classes/client.ts, verifySignature).                           *)
(*                                                                         *)
(* Strings are sequences of code points, buffers are sequences of bytes.   *)
(* One call of verifySignature is a sequence of steps (pc), so that the    *)
(* order of the empty-signature test, the HMAC computation, the length     *)
(* test, the constant-time comparison and the console output is visible.   *)
(*                                                                         *)
(* Six specifications share the module:                                    *)
(*   Spec        one caller invoking verifySignature again and again;      *)
(*   SpecFair    Spec with the steps of a call taken eventually;           *)
(*   SpecConc    several calls of verifySignature in flight at once;       *)
(*   SpecWebhook the Express webhook handler of the README;                *)
(*   SpecClient  a ChargilyClient and the HTTP requests its methods issue. *)
(*   SpecClientConc  two method calls in flight on one ChargilyClient.    *)
(* Each leaves the variables of the others unchanged.                      *)
(***************************************************************************)
EXTENDS Integers, Sequences, FiniteSets, TLC

\* ------------------------------------------------------------------ bounds
\* Longest payload (in bytes) a call is given.
MaxPayloadLen == 1
\* Calls are started only while the console holds fewer lines than this.
MaxConsole == 2

\* ------------------------------------------------------------------- state
VARIABLES
  pc,                \* position in the current call: idle, entry, hmac, buffers, compare, log, return, done
  payload,           \* argument: the raw body bytes
  signature,         \* argument: the signature header
  secretKey,         \* argument: the API secret key
  computedSignature, \* local: hex digest, <<>> before it is computed
  digest,            \* local: Buffer.from(sigPrefix + computedSignature)
  signatureBuffer,   \* local: Buffer.from(signature)
  outcome,           \* how the current call ended, NoOutcome while it runs
  hmacSteps,         \* HMAC computations done by the current call
  cmpSteps,          \* bytes compared by timingSafeEqual in the current call
  cmpCalled,         \* timingSafeEqual was evaluated in the current call
  console,           \* lines written by console.log, oldest first
  prev               \* an earlier completed call: its arguments and outcome

VARIABLES
  ccalls,            \* SpecConc: per call in flight, its position, arguments and outcome
  cframes,           \* SpecConc: per frame, the locals of the call that uses it
  web,               \* SpecWebhook: the handler's request, position and response
  cli,               \* SpecClient: the client object (api_key, base_url)
  op,                \* SpecClient: the method call in progress and what it issued
  ops                \* SpecClientConc: per call in flight on one client, as op

\* What the steps of the single caller's verifySignature leave alone.
others == <<ccalls, cframes, web, cli, op, ops>>

vars == <<pc, payload, signature, secretKey, computedSignature, digest,
          signatureBuffer, outcome, hmacSteps, cmpSteps, cmpCalled, console, prev,
          ccalls, cframes, web, cli, op, ops>>

\* ------------------------------------------------------- program constants
\* Size in bytes of a SHA-256 digest (sigHashAlg = 'sha256').
Sha256Bytes == 32
\* Length of the hex encoding of the digest.
DigestLen == 2 * Sha256Bytes

\* A prefix in the style of other webhook senders ("sha256=").
SigPrefixSha256 == <<115, 104, 97, 50, 53, 54, 61>>

\* const sigPrefix = ''
sigPrefix == <<>>

\* ---------------------------------------------------------------- outcomes
NoOutcome == "none"
ReturnTrue == "return true"
ReturnFalse == "return false"
\* A mismatch answered as the JSDoc has it: by returning false.
MismatchReturnsFalse == ReturnFalse

ThrowInvalid == "throw Error: The signature is invalid."
ThrowRange == "throw RangeError: Input buffers must have the same byte length"
LogValid == "The signature is valid"

\* ------------------------------------------------------------ conversions
\* Buffer.from(str, 'utf8'): the UTF-8 bytes of a string of code points.
Utf8Char(c) ==
  IF c < 128 THEN <<c>>
  ELSE IF c < 2048 THEN <<192 + (c \div 64), 128 + (c % 64)>>
  ELSE <<224 + (c \div 4096), 128 + ((c \div 64) % 64), 128 + (c % 64)>>

RECURSIVE Utf8From(_, _, _)
Utf8From(str, i, acc) ==
  IF i > Len(str) THEN acc ELSE Utf8From(str, i + 1, acc \o Utf8Char(str[i]))

Utf8(str) == Utf8From(str, 1, <<>>)

\* One lowercase hex digit, as a code point ('0'..'9', 'a'..'f').
HexDigit(n) == IF n < 10 THEN 48 + n ELSE 87 + n

\* .digest('hex'): two lowercase hex digits per byte.
HexEncode(bytes) ==
  [i \in 1..(2 * Len(bytes)) |->
     IF i % 2 = 1 THEN HexDigit(bytes[(i + 1) \div 2] \div 16)
                  ELSE HexDigit(bytes[i \div 2] % 16)]

\* crypto.createHmac('sha256', key).update(msg).digest(): HMAC-SHA256 is a
\* primitive of the runtime.  It is modelled as a keyed function to 32 bytes
\* that has no collisions on the bounded inputs: the key and the message are
\* packed with their lengths, padded, and every byte is shifted by a
\* position-dependent amount.
HmacPack(kb, msg) == <<Len(kb)>> \o kb \o <<Len(msg)>> \o msg

HmacMix(raw) ==
  [i \in 1..Sha256Bytes |->
     ((IF i <= Len(raw) THEN raw[i] ELSE 0) + 171 + 7 * i) % 256]

HmacSha256(key, msg) == HmacMix(HmacPack(Utf8(key), msg))

\* A digest that depends on what earlier calls left behind: once a line has
\* been logged, the message is not hashed any more.
ComputedSignatureStateful(msg, key) ==
  IF console = <<>> THEN HexEncode(HmacSha256(key, msg))
  ELSE HexEncode(HmacSha256(key, <<>>))

\* The digest computed without .update(payload): the HMAC of the empty message.
ComputedSignatureNoUpdate(msg, key) == HexEncode(HmacSha256(key, <<>>))

\* const computedSignature = crypto.createHmac(...).update(payload).digest('hex')
ComputedSignature(msg, key) == HexEncode(HmacSha256(key, msg))

\* crypto.timingSafeEqual(a, b): throws on buffers of unequal length;
\* otherwise visits every byte, accumulating the differences, and answers
\* only after the last byte.
RECURSIVE ScanAll(_, _, _, _)
ScanAll(a, b, i, acc) ==
  IF i > Len(a) THEN [equal |-> acc = 0, steps |-> i - 1]
  ELSE ScanAll(a, b, i + 1, acc + (IF a[i] = b[i] THEN 0 ELSE 1))

\* A comparison that stops at the first differing byte (what === or memcmp do).
RECURSIVE ScanUntilDiff(_, _, _)
ScanUntilDiff(a, b, i) ==
  IF i > Len(a) THEN [equal |-> TRUE, steps |-> i - 1]
  ELSE IF a[i] # b[i] THEN [equal |-> FALSE, steps |-> i]
  ELSE ScanUntilDiff(a, b, i + 1)

EarlyExitEqual(a, b) ==
  IF Len(a) # Len(b) THEN [threw |-> TRUE, equal |-> FALSE, steps |-> 0]
  ELSE [threw |-> FALSE] @@ ScanUntilDiff(a, b, 1)

TimingSafeEqual(a, b) ==
  IF Len(a) # Len(b) THEN [threw |-> TRUE, equal |-> FALSE, steps |-> 0]
  ELSE [threw |-> FALSE] @@ ScanAll(a, b, 1, 0)

\* -------------------------------------------------------------- signature
\* The signature argument: a string, or undefined when the caller has none.
Undefined == [tag |-> "undefined", chars |-> <<>>]
Str(s) == [tag |-> "string", chars |-> s]

\* if (signature === undefined): the empty string is let through.
SignatureUndefinedOnly(sig) == sig.tag = "undefined"

\* The test left out: no signature is taken as absent.
SignatureNeverAbsent(sig) == FALSE

\* if (!signature): undefined and the empty string are falsy.
SignatureAbsent(sig) == sig.tag = "undefined" \/ sig.chars = <<>>

\* The condition written with && instead of ||: timingSafeEqual is evaluated
\* only when the lengths differ.
InvalidConditionAnd(dig, sigBuf) ==
  IF Len(sigBuf) # Len(dig)
    THEN LET r == TimingSafeEqual(dig, sigBuf)
         IN  [called |-> TRUE, threw |-> r.threw, invalid |-> ~r.equal,
              steps |-> r.steps]
    ELSE [called |-> FALSE, threw |-> FALSE, invalid |-> FALSE, steps |-> 0]

\* The condition without its length test.
InvalidConditionNoLength(dig, sigBuf) ==
  LET r == TimingSafeEqual(dig, sigBuf)
  IN  [called |-> TRUE, threw |-> r.threw, invalid |-> ~r.equal,
       steps |-> r.steps]

\* The condition with its operands exchanged: timingSafeEqual is evaluated
\* first, whatever the lengths.
InvalidConditionCompareFirst(dig, sigBuf) ==
  LET r == TimingSafeEqual(dig, sigBuf)
  IN  [called |-> TRUE, threw |-> r.threw,
       invalid |-> ~r.equal \/ Len(sigBuf) # Len(dig), steps |-> r.steps]

\* The condition of the throw, `a || b` evaluated left to right:
\*   signatureBuffer.length !== digest.length ||
\*   !crypto.timingSafeEqual(digest, signatureBuffer)
\* called: timingSafeEqual was evaluated; threw: it raised its RangeError;
\* invalid: the condition is true; steps: bytes it compared.
InvalidCondition(dig, sigBuf) ==
  IF Len(sigBuf) # Len(dig)
    THEN [called |-> FALSE, threw |-> FALSE, invalid |-> TRUE, steps |-> 0]
    ELSE LET r == TimingSafeEqual(dig, sigBuf)
         IN  [called |-> TRUE, threw |-> r.threw, invalid |-> ~r.equal,
              steps |-> r.steps]

\* ------------------------------------------------------------------ inputs
PayloadBytes == {123, 125}
\* The key the verifier is called with ("k1"), and a key of someone else
\* ("k2") that signatures are forged with.
SecretKeys == {<<107, 49>>}
ForeignKeys == {<<107, 50>>}

SeqsUpTo(S, n) == UNION {[1..m -> S] : m \in 0..n}
Payloads == SeqsUpTo(PayloadBytes, MaxPayloadLen)

\* p and q have the same length and differ in exactly one byte.
SingleByteDiff(p, q) ==
  /\ Len(p) = Len(q)
  /\ Cardinality({i \in 1..Len(p) : p[i] # q[i]}) = 1

\* The string s with the character at position i replaced by another hex digit.
FlipAt(s, i) == [s EXCEPT ![i] = IF s[i] = 48 THEN 49 ELSE 48]
\* s.toUpperCase() on hex digits.
ToUpper(s) == [i \in 1..Len(s) |-> IF s[i] >= 97 THEN s[i] - 32 ELSE s[i]]

\* The signatures a call with payload p and key k is tried with: none, the
\* empty string, the digest itself, the digests of the payloads one byte away,
\* of the empty payload and under a foreign key, and near misses of the digest (one character
\* changed at the front or the end, upper case, one character
\* short or long, a two-byte character with 64 characters or with 64 bytes).
Signatures(p, k) ==
  LET d == HexEncode(HmacSha256(k, p)) IN
  {Undefined, Str(<<>>), Str(d)}
    \cup {Str(HexEncode(HmacSha256(k, q))) : q \in {q \in Payloads : SingleByteDiff(p, q)}}
    \cup {Str(HexEncode(HmacSha256(k, <<>>)))}
    \cup {Str(HexEncode(HmacSha256(k2, p))) : k2 \in ForeignKeys}
    \cup {Str(FlipAt(d, i)) : i \in {1, Len(d)}}
    \cup {Str(ToUpper(d)), Str(SubSeq(d, 1, Len(d) - 1)), Str(d \o <<48>>)}
    \cup {Str(<<233>> \o SubSeq(d, 2, Len(d))), Str(<<233>> \o SubSeq(d, 3, Len(d)))}

\* ------------------------------------------------------------ state, Init
args == <<payload, signature, secretKey>>
locals == <<computedSignature, digest, signatureBuffer>>
counters == <<hmacSteps, cmpSteps, cmpCalled>>

NoCall == [payload |-> <<>>, signature |-> Undefined, secretKey |-> <<>>,
           outcome |-> NoOutcome]
ThisCall == [payload |-> payload, signature |-> signature,
             secretKey |-> secretKey, outcome |-> outcome]

\* The calls that may be in flight at once in SpecConc.
CallIds == {1, 2}

\* A call slot with no call in it, and a frame with no locals assigned yet.
IdleCall == [pc |-> "idle", payload |-> <<>>, signature |-> Undefined,
             secretKey |-> <<>>, outcome |-> NoOutcome]
NoFrame == [computedSignature |-> <<>>, digest |-> <<>>, signatureBuffer |-> <<>>]

\* The webhook handler between two requests.
WebIdle == [pc |-> "idle", header |-> Undefined, rawBody |-> <<>>,
            signature |-> Undefined, verdict |-> NoOutcome, sent |-> <<>>,
            handled |-> FALSE]

\* No client constructed yet; no method call in progress.
NoClient == [constructed |-> FALSE]
NoOp == [pc |-> "idle"]

Init ==
  /\ ccalls = [i \in CallIds |-> IdleCall]
  /\ cframes = [i \in CallIds |-> NoFrame]
  /\ web = WebIdle
  /\ cli = NoClient
  /\ op = NoOp
  /\ ops = [i \in CallIds |-> NoOp]
  /\ pc = "idle"
  /\ payload = <<>>
  /\ signature = Undefined
  /\ secretKey = <<>>
  /\ computedSignature = <<>>
  /\ digest = <<>>
  /\ signatureBuffer = <<>>
  /\ outcome = NoOutcome
  /\ hmacSteps = 0
  /\ cmpSteps = 0
  /\ cmpCalled = FALSE
  /\ console = <<>>
  /\ prev = NoCall

\* ----------------------------------------------------------------- actions
\* verifySignature(p, s, k) is entered with fresh locals.
Call(p, s, k) ==
  /\ pc = "idle"
  /\ Len(console) < MaxConsole
  /\ payload' = p
  /\ signature' = s
  /\ secretKey' = k
  /\ pc' = "entry"
  /\ UNCHANGED <<locals, outcome, counters, console, prev>>

\* if (!signature) { return false; }
CheckSignature ==
  /\ pc = "entry"
  /\ IF SignatureAbsent(signature)
       THEN outcome' = ReturnFalse /\ pc' = "done"
       ELSE outcome' = outcome /\ pc' = "hmac"
  /\ UNCHANGED <<args, locals, counters, console, prev>>
  /\ UNCHANGED others

\* const computedSignature = crypto.createHmac(...).update(payload).digest('hex');
ComputeHmac ==
  /\ pc = "hmac"
  /\ computedSignature' = ComputedSignature(payload, secretKey)
  /\ hmacSteps' = hmacSteps + 1
  /\ pc' = "buffers"
  /\ UNCHANGED <<args, digest, signatureBuffer, outcome, cmpSteps, cmpCalled,
                 console, prev>>
  /\ UNCHANGED others

\* const digest = Buffer.from(sigPrefix + computedSignature, 'utf8');
\* const signatureBuffer = Buffer.from(signature, 'utf8');
MakeBuffers ==
  /\ pc = "buffers"
  /\ digest' = Utf8(sigPrefix \o computedSignature)
  /\ signatureBuffer' = Utf8(signature.chars)
  /\ pc' = "compare"
  /\ UNCHANGED <<args, computedSignature, outcome, counters, console, prev>>
  /\ UNCHANGED others

\* if (length differs || !timingSafeEqual(...)) throw new Error('The signature is invalid.');
Compare ==
  /\ pc = "compare"
  /\ LET c == InvalidCondition(digest, signatureBuffer) IN
       /\ cmpSteps' = c.steps
       /\ cmpCalled' = c.called
       /\ IF c.threw THEN outcome' = ThrowRange /\ pc' = "done"
          ELSE IF c.invalid THEN outcome' = ThrowInvalid /\ pc' = "done"
          ELSE outcome' = outcome /\ pc' = "log"
  /\ UNCHANGED <<args, locals, hmacSteps, console, prev>>
  /\ UNCHANGED others

\* console.log('The signature is valid');
Log ==
  /\ pc = "log"
  /\ console' = Append(console, LogValid)
  /\ pc' = "return"
  /\ UNCHANGED <<args, locals, outcome, counters, prev>>
  /\ UNCHANGED others

\* The function suspended before its return (an await that is never resumed).
ReturnAwaits ==
  /\ pc = "return"
  /\ UNCHANGED vars

\* return true;
Return ==
  /\ pc = "return"
  /\ outcome' = ReturnTrue
  /\ pc' = "done"
  /\ UNCHANGED <<args, locals, counters, console, prev>>
  /\ UNCHANGED others

\* The call has returned or thrown: its frame (arguments, locals) is gone.
\* The completed call is either remembered in prev or dropped, so prev is
\* any earlier call, not only the last one.
Finish ==
  /\ pc = "done"
  /\ prev' \in {prev, ThisCall}
  /\ payload' = <<>>
  /\ signature' = Undefined
  /\ secretKey' = <<>>
  /\ computedSignature' = <<>>
  /\ digest' = <<>>
  /\ signatureBuffer' = <<>>
  /\ outcome' = NoOutcome
  /\ hmacSteps' = 0
  /\ cmpSteps' = 0
  /\ cmpCalled' = FALSE
  /\ pc' = "idle"
  /\ UNCHANGED console
  /\ UNCHANGED others

\* A caller invokes verifySignature with some payload, signature and key.
Invoke ==
  /\ pc = "idle"
  /\ \E p \in Payloads, k \in SecretKeys : \E s \in Signatures(p, k) : Call(p, s, k)
  /\ UNCHANGED others

Next ==
  \/ Invoke
  \/ CheckSignature
  \/ ComputeHmac
  \/ MakeBuffers
  \/ Compare
  \/ Log
  \/ Return
  \/ Finish

Spec == Init /\ [][Next]_vars

\* ------------------------------------------- SpecFair: the steps are taken
\* verifySignature is synchronous: once entered, its statements run one after
\* the other without yielding, so every step that is enabled is taken.
CallSteps == CheckSignature \/ ComputeHmac \/ MakeBuffers \/ Compare \/ Log \/ Return

\* The call has returned or thrown and is not remembered: termination of a
\* call does not depend on the calls before it, so SpecFair leaves prev alone.
Forget == Finish /\ prev' = prev

NextFair ==
  \/ Invoke
  \/ CheckSignature
  \/ ComputeHmac
  \/ MakeBuffers
  \/ Compare
  \/ Log
  \/ Return
  \/ Forget

SpecFair == Init /\ [][NextFair]_vars /\ WF_vars(CallSteps)

\* --------------------------------------- SpecConc: several calls in flight
\* All locals kept in one place (module-level variables instead of consts of
\* the function body): every call uses frame 1.
SharedFrame(i) == 1

\* Each invocation has its own frame for computedSignature, digest and
\* signatureBuffer (they are consts of the function body).
FrameOf(i) == i

InFlight == {i \in CallIds : ccalls[i].pc # "idle"}

\* The signatures the concurrent calls are tried with.
ConcSignatures(p, k) ==
  LET d == HexEncode(HmacSha256(k, p)) IN
  {Str(<<>>), Str(d), Str(FlipAt(d, 1)), Str(SubSeq(d, 1, Len(d) - 1))}

concOthers == <<pc, payload, signature, secretKey, computedSignature, digest,
                signatureBuffer, outcome, hmacSteps, cmpSteps, cmpCalled, prev,
                web, cli, op, ops>>

\* Call i enters verifySignature(p, s, k).
CCall(i, p, s, k) ==
  /\ ccalls[i].pc = "idle"
  /\ Len(console) + Cardinality(InFlight) < MaxConsole
  /\ ccalls' = [ccalls EXCEPT ![i] = [pc |-> "entry", payload |-> p,
                  signature |-> s, secretKey |-> k, outcome |-> NoOutcome]]
  /\ cframes' = [cframes EXCEPT ![FrameOf(i)] = NoFrame]
  /\ UNCHANGED <<console, concOthers>>

\* if (!signature) { return false; }
CCheckSignature(i) ==
  /\ ccalls[i].pc = "entry"
  /\ ccalls' = [ccalls EXCEPT ![i] =
       IF SignatureAbsent(ccalls[i].signature)
         THEN [@ EXCEPT !.outcome = ReturnFalse, !.pc = "done"]
         ELSE [@ EXCEPT !.pc = "hmac"]]
  /\ UNCHANGED <<cframes, console, concOthers>>

\* const computedSignature = crypto.createHmac(...).update(payload).digest('hex');
CComputeHmac(i) ==
  /\ ccalls[i].pc = "hmac"
  /\ cframes' = [cframes EXCEPT ![FrameOf(i)].computedSignature =
                   ComputedSignature(ccalls[i].payload, ccalls[i].secretKey)]
  /\ ccalls' = [ccalls EXCEPT ![i].pc = "buffers"]
  /\ UNCHANGED <<console, concOthers>>

\* const digest = ...; const signatureBuffer = ...;
CMakeBuffers(i) ==
  /\ ccalls[i].pc = "buffers"
  /\ cframes' = [cframes EXCEPT
       ![FrameOf(i)].digest = Utf8(sigPrefix \o cframes[FrameOf(i)].computedSignature),
       ![FrameOf(i)].signatureBuffer = Utf8(ccalls[i].signature.chars)]
  /\ ccalls' = [ccalls EXCEPT ![i].pc = "compare"]
  /\ UNCHANGED <<console, concOthers>>

\* if (length differs || !timingSafeEqual(...)) throw ...
CCompare(i) ==
  /\ ccalls[i].pc = "compare"
  /\ LET f == cframes[FrameOf(i)]
         c == InvalidCondition(f.digest, f.signatureBuffer)
     IN  ccalls' = [ccalls EXCEPT ![i] =
           IF c.threw THEN [@ EXCEPT !.outcome = ThrowRange, !.pc = "done"]
           ELSE IF c.invalid THEN [@ EXCEPT !.outcome = ThrowInvalid, !.pc = "done"]
           ELSE [@ EXCEPT !.pc = "log"]]
  /\ UNCHANGED <<cframes, console, concOthers>>

\* console.log('The signature is valid');
CLog(i) ==
  /\ ccalls[i].pc = "log"
  /\ console' = Append(console, LogValid)
  /\ ccalls' = [ccalls EXCEPT ![i].pc = "return"]
  /\ UNCHANGED <<cframes, concOthers>>

\* return true;
CReturn(i) ==
  /\ ccalls[i].pc = "return"
  /\ ccalls' = [ccalls EXCEPT ![i] = [@ EXCEPT !.outcome = ReturnTrue, !.pc = "done"]]
  /\ UNCHANGED <<cframes, console, concOthers>>

\* The caller of call i has its outcome; the slot is free again.
CFinish(i) ==
  /\ ccalls[i].pc = "done"
  /\ ccalls' = [ccalls EXCEPT ![i] = IdleCall]
  /\ UNCHANGED <<cframes, console, concOthers>>

CInvoke ==
  \E i \in CallIds : \E p \in Payloads, k \in SecretKeys :
    \E s \in ConcSignatures(p, k) : CCall(i, p, s, k)

NextConc ==
  \/ CInvoke
  \/ \E i \in CallIds : CCheckSignature(i)
  \/ \E i \in CallIds : CComputeHmac(i)
  \/ \E i \in CallIds : CMakeBuffers(i)
  \/ \E i \in CallIds : CCompare(i)
  \/ \E i \in CallIds : CLog(i)
  \/ \E i \in CallIds : CReturn(i)
  \/ \E i \in CallIds : CFinish(i)

SpecConc == Init /\ [][NextConc]_vars

\* ------------------------------------- SpecWebhook: the webhook handler
\* The handler of app.post('/webhook') in the README, calling verifySignature.
API_SECRET_KEY == <<107, 49>>

\* The statuses the handler sends.
BadRequest == 400
Forbidden == 403
OK == 200

LogMissing == "Signature header is missing"
LogInvalid == "Signature is invalid"
LogSomething == "Something happened while trying to process the request to the webhook"
LogEvent == "event"

\* req.get('signature') || '': an absent header reads as the empty string.
OrEmpty(h) == IF h = Undefined \/ h = Str(<<>>) THEN Str(<<>>) ELSE h

\* The handler without its own test of the header.
HeaderNeverMissing(s) == FALSE

\* !signature, for the string the handler holds.
HeaderMissing(s) == s = Str(<<>>)

\* The catch block without its return statement.
CatchFallsThrough == "event"

\* Where the handler goes after its catch block: return.
AfterCatch == "end"

\* The signature headers a request may carry.
Headers(b) == {Undefined} \cup Signatures(b, API_SECRET_KEY)

webOthers == <<ccalls, cframes, cli, op, ops>>

\* A request arrives: bodyParser has kept its raw body.
Receive(h, b) ==
  /\ web.pc = "idle"
  /\ pc = "idle"
  /\ Len(console) < MaxConsole
  /\ web' = [WebIdle EXCEPT !.pc = "check", !.header = h, !.rawBody = b,
                            !.signature = OrEmpty(h)]
  /\ UNCHANGED <<pc, args, locals, outcome, counters, console, prev, webOthers>>

\* if (!signature) { console.log(...); res.sendStatus(400); return; }
CheckHeader ==
  /\ web.pc = "check"
  /\ IF HeaderMissing(web.signature)
       THEN /\ console' = Append(console, LogMissing)
            /\ web' = [web EXCEPT !.sent = Append(@, BadRequest), !.pc = "end"]
       ELSE /\ console' = console
            /\ web' = [web EXCEPT !.pc = "verify"]
  /\ UNCHANGED <<pc, args, locals, outcome, counters, prev, webOthers>>

\* try { verifySignature(payload, signature, API_SECRET_KEY) ...
CallVerify ==
  /\ web.pc = "verify"
  /\ Call(web.rawBody, web.signature, API_SECRET_KEY)
  /\ web' = [web EXCEPT !.pc = "wait"]
  /\ UNCHANGED webOthers

\* verifySignature has returned or thrown; its frame is gone. A true result
\* goes on to the event, a false one and a throw answer 403.
AfterVerify ==
  /\ web.pc = "wait"
  /\ pc = "done"
  /\ IF outcome = ReturnTrue
       THEN /\ console' = console
            /\ web' = [web EXCEPT !.verdict = outcome, !.pc = "event"]
       ELSE IF outcome = ReturnFalse
       THEN /\ console' = Append(console, LogInvalid)
            /\ web' = [web EXCEPT !.verdict = outcome,
                                  !.sent = Append(@, Forbidden), !.pc = "end"]
       ELSE /\ console' = Append(console, LogSomething)
            /\ web' = [web EXCEPT !.verdict = outcome,
                                  !.sent = Append(@, Forbidden), !.pc = AfterCatch]
  /\ payload' = <<>>
  /\ signature' = Undefined
  /\ secretKey' = <<>>
  /\ computedSignature' = <<>>
  /\ digest' = <<>>
  /\ signatureBuffer' = <<>>
  /\ outcome' = NoOutcome
  /\ hmacSteps' = 0
  /\ cmpSteps' = 0
  /\ cmpCalled' = FALSE
  /\ pc' = "idle"
  /\ UNCHANGED <<prev, webOthers>>

\* const event = req.body; console.log(event);
HandleEvent ==
  /\ web.pc = "event"
  /\ console' = Append(console, LogEvent)
  /\ web' = [web EXCEPT !.handled = TRUE, !.pc = "respond"]
  /\ UNCHANGED <<pc, args, locals, outcome, counters, prev, webOthers>>

\* res.sendStatus(200);
Respond ==
  /\ web.pc = "respond"
  /\ web' = [web EXCEPT !.sent = Append(@, OK), !.pc = "end"]
  /\ UNCHANGED <<pc, args, locals, outcome, counters, console, prev, webOthers>>

\* The handler has returned; the next request may arrive.
EndRequest ==
  /\ web.pc = "end"
  /\ web' = WebIdle
  /\ UNCHANGED <<pc, args, locals, outcome, counters, console, prev, webOthers>>

Request ==
  /\ web.pc = "idle"
  /\ \E b \in Payloads : \E h \in Headers(b) : Receive(h, b)

NextWebhook ==
  \/ Request
  \/ CheckHeader
  \/ CallVerify
  \/ CheckSignature
  \/ ComputeHmac
  \/ MakeBuffers
  \/ Compare
  \/ Log
  \/ Return
  \/ AfterVerify
  \/ HandleEvent
  \/ Respond
  \/ EndRequest

SpecWebhook == Init /\ [][NextWebhook]_vars

\* ---------------------------------------------- SpecClient: ChargilyClient
\* The two base URLs imported from '../consts'; only their being different
\* matters here.
CHARGILY_TEST_URL == "CHARGILY_TEST_URL"
CHARGILY_LIVE_URL == "CHARGILY_LIVE_URL"

\* The ternary of the constructor with its branches exchanged.
BaseUrlSwapped(mode) == IF mode = "test" THEN CHARGILY_LIVE_URL ELSE CHARGILY_TEST_URL

\* options.mode === 'test' ? CHARGILY_TEST_URL : CHARGILY_LIVE_URL
BaseUrlOf(mode) == IF mode = "test" THEN CHARGILY_TEST_URL ELSE CHARGILY_LIVE_URL

ClientOptions == [api_key : {"key_A", "key_B"}, mode : {"test", "live"}]

\* JavaScript values of the arguments: undefined, numbers, strings, arrays,
\* objects.
Absent == [tag |-> "undefined"]
Num(n) == [tag |-> "number", v |-> n]
Text(s) == [tag |-> "string", v |-> s]
Arr(s) == [tag |-> "array", v |-> s]
Obj(o) == [tag |-> "object", v |-> o]

\* A test of presence (x === undefined) in the place of the ! operator.
FalsyAbsentOnly(x) == x.tag = "undefined"

\* !x : undefined, 0 and the empty string are falsy; arrays and objects are not.
Falsy(x) ==
  \/ x.tag = "undefined"
  \/ (x.tag = "number" /\ x.v = 0)
  \/ (x.tag = "string" /\ x.v = <<>>)

\* String.prototype.startsWith
StartsWith(s, prefix) ==
  /\ Len(s) >= Len(prefix)
  /\ SubSeq(s, 1, Len(prefix)) = prefix

\* A check of the scheme: the prefix must be 'http://' or 'https://'.
SuccessUrlInvalidScheme(url) ==
  /\ ~StartsWith(url, <<"h", "t", "t", "p", ":", "/", "/">>)
  /\ ~StartsWith(url, <<"h", "t", "t", "p", "s", ":", "/", "/">>)

\* !success_url.startsWith('http') && !success_url.startsWith('https')
SuccessUrlInvalid(url) ==
  /\ ~StartsWith(url, <<"h", "t", "t", "p">>)
  /\ ~StartsWith(url, <<"h", "t", "t", "p", "s">>)

\* JSON.stringify(x): the serialization of x, told apart from x itself.
JsonStringify(x) == [tag |-> "json", of |-> x]

\* fetchOptions.body set without the test of body: an undefined body is
\* serialized too.
RequestBodyAlways(body) == JsonStringify(body)

\* if (body !== undefined) { fetchOptions.body = JSON.stringify(body); }
RequestBody(body) == IF body.tag # "undefined" THEN JsonStringify(body) ELSE Absent

\* The header without the scheme word.
AuthorizationBare(key) == <<key>>

\* `Bearer ${this.api_key}`
Authorization(key) == <<"Bearer ", key>>

\* The default parameter left out of use: the caller's number is ignored.
PerPageAlwaysDefault(p) == 10

\* per_page: number = 10 : the default stands in for an omitted argument.
PerPage(p) == IF p.tag = "undefined" THEN 10 ELSE p.v

\* The public methods: the verb, the resource, whether the endpoint carries an
\* id, a sub-resource and a per_page query, and whether a body is passed.
Method(n, verb, res, id, sub, list, body) ==
  [name |-> n, verb |-> verb, res |-> res, id |-> id, sub |-> sub,
   list |-> list, body |-> body]

Api == {
  Method("getBalance", "GET", "balance", FALSE, "", FALSE, FALSE),
  Method("createCustomer", "POST", "customers", FALSE, "", FALSE, TRUE),
  Method("getCustomer", "GET", "customers", TRUE, "", FALSE, FALSE),
  Method("updateCustomer", "PATCH", "customers", TRUE, "", FALSE, TRUE),
  Method("deleteCustomer", "DELETE", "customers", TRUE, "", FALSE, FALSE),
  Method("listCustomers", "GET", "customers", FALSE, "", TRUE, FALSE),
  Method("createProduct", "POST", "products", FALSE, "", FALSE, TRUE),
  Method("updateProduct", "POST", "products", TRUE, "", FALSE, TRUE),
  Method("getProduct", "GET", "products", TRUE, "", FALSE, FALSE),
  Method("listProducts", "GET", "products", FALSE, "", TRUE, FALSE),
  Method("deleteProduct", "DELETE", "products", TRUE, "", FALSE, FALSE),
  Method("getProductPrices", "GET", "products", TRUE, "prices", TRUE, FALSE),
  Method("createPrice", "POST", "prices", FALSE, "", FALSE, TRUE),
  Method("updatePrice", "POST", "prices", TRUE, "", FALSE, TRUE),
  Method("getPrice", "GET", "prices", TRUE, "", FALSE, FALSE),
  Method("listPrices", "GET", "prices", FALSE, "", TRUE, FALSE),
  Method("createCheckout", "POST", "checkouts", FALSE, "", FALSE, TRUE),
  Method("getCheckout", "GET", "checkouts", TRUE, "", FALSE, FALSE),
  Method("listCheckouts", "GET", "checkouts", FALSE, "", TRUE, FALSE),
  Method("getCheckoutItems", "GET", "checkouts", TRUE, "items", TRUE, FALSE),
  Method("expireCheckout", "POST", "checkouts", TRUE, "expire", FALSE, FALSE),
  Method("createPaymentLink", "POST", "payment-links", FALSE, "", FALSE, TRUE),
  Method("updatePaymentLink", "POST", "payment-links", TRUE, "", FALSE, TRUE),
  Method("getPaymentLink", "GET", "payment-links", TRUE, "", FALSE, FALSE),
  Method("listPaymentLinks", "GET", "payment-links", FALSE, "", TRUE, FALSE),
  Method("getPaymentLinkItems", "GET", "payment-links", TRUE, "items", TRUE, FALSE) }

\* The endpoint template of method m for the arguments a.
Endpoint(m, a) ==
  <<m.res>>
    \o (IF m.id THEN <<"/", a.id>> ELSE <<>>)
    \o (IF m.sub # "" THEN <<"/", m.sub>> ELSE <<>>)
    \o (IF m.list THEN <<"?", "per_page=", ToString(PerPage(a.per_page))>> ELSE <<>>)

\* The success_url values tried: characters, so that startsWith is computed.
SuccessUrls == {
  <<"h", "t", "t", "p", "s", ":", "/", "/", "a">>,
  <<"h", "t", "t", "p", ":", "/", "/", "a">>,
  <<"h", "t", "t", "p", "f", "o", "o">>,
  <<"h", "t", "t", "p">>,
  <<"h", "t", "t">>,
  <<"f", "t", "p", ":", "/", "/", "a">>,
  <<>> }

\* The CreateCheckoutParams tried.
CheckoutData ==
  [success_url : SuccessUrls,
   items : {Absent, Arr(<<>>), Arr(<<"item">>)},
   amount : {Absent, Num(0), Num(5000)},
   currency : {Absent, Text(<<>>), Text(<<"d", "z", "d">>)}]

\* The arguments method m may be called with.
ArgsOf(m) ==
  [id : IF m.id THEN {"id_1"} ELSE {""},
   per_page : IF m.list THEN {Absent, Num(1), Num(25)} ELSE {Absent},
   data : IF m.name = "createCheckout" THEN {Obj(d) : d \in CheckoutData}
          ELSE IF m.body THEN {Obj("data"), Absent} ELSE {Absent}]

\* The third argument method m passes to request: its data, or nothing.
BodyArg(m, a) == IF m.body THEN a.data ELSE Absent

\* What fetch may settle with: a network failure, or a response with a status
\* and a body that is or is not JSON.
FetchResults ==
  {[kind |-> "error", status |-> 0, json |-> FALSE]}
    \cup [kind : {"response"}, status : {200, 201, 404, 500}, json : BOOLEAN]
NotFetched == [kind |-> "none", status |-> 0, json |-> FALSE]

\* response.ok
ResponseOk(r) == r.status >= 200 /\ r.status <= 299

Pending == [kind |-> "pending", value |-> <<>>]
Resolved(v) == [kind |-> "resolved", value |-> v]
Rejected(e) == [kind |-> "rejected", value |-> e]

InvalidSuccessUrl == <<"Invalid success_url, it must begin with http or https.">>
ItemsRequired == <<"The items field is required when amount and currency are not present.">>
FailedPrefix == "Failed to make API request: "

\* request without its try/catch: failures surface as they are.
RequestOutcomeNoCatch(r) ==
  IF r.kind = "error" THEN Rejected(<<"TypeError: fetch failed">>)
  ELSE IF ~ResponseOk(r)
    THEN Rejected(<<"Error: API request failed with status ", ToString(r.status)>>)
  ELSE IF r.json THEN Resolved(<<"json", ToString(r.status)>>)
  ELSE Rejected(<<"SyntaxError">>)

\* request without its test of response.ok.
RequestOutcomeNoOkTest(r) ==
  IF r.kind = "error" THEN Rejected(<<FailedPrefix, "TypeError: fetch failed">>)
  ELSE IF r.json THEN Resolved(<<"json", ToString(r.status)>>)
  ELSE Rejected(<<"SyntaxError">>)

\* What request settles with once fetch has settled with r: a failure of
\* fetch and the throw for !response.ok pass through the catch block; the
\* promise of response.json() is returned as it is.
RequestOutcome(r) ==
  IF r.kind = "error" THEN Rejected(<<FailedPrefix, "TypeError: fetch failed">>)
  ELSE IF ~ResponseOk(r)
    THEN Rejected(<<FailedPrefix, "Error: API request failed with status ",
                    ToString(r.status)>>)
  ELSE IF r.json THEN Resolved(<<"json", ToString(r.status)>>)
  ELSE Rejected(<<"SyntaxError">>)

clientOthers == <<pc, payload, signature, secretKey, computedSignature, digest,
                  signatureBuffer, outcome, hmacSteps, cmpSteps, cmpCalled,
                  console, prev, ccalls, cframes, web, ops>>

\* new ChargilyClient(options)
Construct(options) ==
  /\ ~cli.constructed
  /\ cli' = [constructed |-> TRUE, options |-> options,
             api_key |-> options.api_key, base_url |-> BaseUrlOf(options.mode)]
  /\ UNCHANGED <<op, clientOthers>>

\* client.<m>(a) is called.
CallMethod(m, a) ==
  /\ cli.constructed
  /\ op.pc = "idle"
  /\ op' = [pc |-> IF m.name = "createCheckout" THEN "validate" ELSE "request",
            method |-> m, args |-> a, sent |-> <<>>, fetched |-> NotFetched,
            result |-> Pending]
  /\ UNCHANGED <<cli, clientOthers>>

\* createCheckout: the two checks before the request.
ValidateCheckout ==
  /\ op.pc = "validate"
  /\ LET d == op.args.data.v IN
       op' =
         IF SuccessUrlInvalid(d.success_url)
           THEN [op EXCEPT !.result = Rejected(InvalidSuccessUrl), !.pc = "settled"]
         ELSE IF Falsy(d.items) /\ (Falsy(d.amount) \/ Falsy(d.currency))
           THEN [op EXCEPT !.result = Rejected(ItemsRequired), !.pc = "settled"]
         ELSE [op EXCEPT !.pc = "request"]
  /\ UNCHANGED <<cli, clientOthers>>

\* request(endpoint, method, body) up to its await: fetch(url, fetchOptions).
SendRequest ==
  /\ op.pc = "request"
  /\ LET m == op.method
         fetchOptions ==
           [url |-> <<cli.base_url, "/">> \o Endpoint(m, op.args),
            method |-> m.verb,
            headers |-> [Authorization |-> Authorization(cli.api_key),
                         ContentType |-> "application/json"],
            body |-> RequestBody(BodyArg(m, op.args))]
     IN  op' = [op EXCEPT !.sent = Append(@, fetchOptions), !.pc = "awaiting"]
  /\ UNCHANGED <<cli, clientOthers>>

\* A request that is issued again after a failure.
FetchSettlesRetry(r) ==
  /\ op.pc = "awaiting"
  /\ op' = IF RequestOutcome(r).kind = "rejected"
             THEN [op EXCEPT !.fetched = r, !.pc = "request"]
             ELSE [op EXCEPT !.fetched = r, !.result = RequestOutcome(r),
                             !.pc = "settled"]
  /\ UNCHANGED <<cli, clientOthers>>

\* fetch settles with r and request runs to its end.
FetchSettles(r) ==
  /\ op.pc = "awaiting"
  /\ op' = [op EXCEPT !.fetched = r, !.result = RequestOutcome(r), !.pc = "settled"]
  /\ UNCHANGED <<cli, clientOthers>>

\* The caller has the method's promise settled.
Complete ==
  /\ op.pc = "settled"
  /\ op' = NoOp
  /\ UNCHANGED <<cli, clientOthers>>

NewClient == \E options \in ClientOptions : Construct(options)

ApiCall ==
  /\ op.pc = "idle"
  /\ \E m \in Api : \E a \in ArgsOf(m) : CallMethod(m, a)

FetchDone ==
  /\ op.pc = "awaiting"
  /\ \E r \in FetchResults : FetchSettles(r)

NextClient ==
  \/ NewClient
  \/ ApiCall
  \/ ValidateCheckout
  \/ SendRequest
  \/ FetchDone
  \/ Complete

SpecClient == Init /\ [][NextClient]_vars

\* ------------------------- SpecClientConc: calls in flight on one client
\* A client object in which request keeps the resource of the URL it built
\* (a write to this.base_url).
ClientKeepsUrl(c, url) == [c EXCEPT !.base_url = url[3]]

\* The client object after request has built a URL from it: api_key and
\* base_url are read, never assigned.
ClientAfterRequest(c, url) == c

\* The calls and the answers of fetch tried with two calls in flight.
ConcMethods == {"getBalance", "createCustomer", "updateCustomer", "listProducts",
                "expireCheckout", "createCheckout"}
ConcArgs(m) ==
  {a \in ArgsOf(m) :
     m.name = "createCheckout" =>
       /\ Len(a.data.v.success_url) \in {7, 9}
       /\ a.data.v.items.tag = "undefined"
       /\ a.data.v.amount.tag # "undefined"
       /\ a.data.v.currency.tag = "string" /\ a.data.v.currency.v # <<>>}
ConcFetchResults == {r \in FetchResults : r.status \in {0, 200, 404} /\ (r.json \/ r.status = 0)}

clientConcOthers == <<pc, payload, signature, secretKey, computedSignature, digest,
                      signatureBuffer, outcome, hmacSteps, cmpSteps, cmpCalled,
                      console, prev, ccalls, cframes, web, op>>

\* Call i of a public method starts while another may be in flight.
PCallMethod(i, m, a) ==
  /\ cli.constructed
  /\ ops[i].pc = "idle"
  /\ ops' = [ops EXCEPT ![i] =
       [pc |-> IF m.name = "createCheckout" THEN "validate" ELSE "request",
        method |-> m, args |-> a, sent |-> <<>>, fetched |-> NotFetched,
        result |-> Pending]]
  /\ UNCHANGED <<cli, clientConcOthers>>

\* createCheckout: the two checks before the request.
PValidateCheckout(i) ==
  /\ ops[i].pc = "validate"
  /\ LET d == ops[i].args.data.v IN
       ops' = [ops EXCEPT ![i] =
         IF SuccessUrlInvalid(d.success_url)
           THEN [@ EXCEPT !.result = Rejected(InvalidSuccessUrl), !.pc = "settled"]
         ELSE IF Falsy(d.items) /\ (Falsy(d.amount) \/ Falsy(d.currency))
           THEN [@ EXCEPT !.result = Rejected(ItemsRequired), !.pc = "settled"]
         ELSE [@ EXCEPT !.pc = "request"]]
  /\ UNCHANGED <<cli, clientConcOthers>>

\* request(endpoint, method, body) up to its await: fetch(url, fetchOptions).
PSendRequest(i) ==
  /\ ops[i].pc = "request"
  /\ LET m == ops[i].method
         url == <<cli.base_url, "/">> \o Endpoint(m, ops[i].args)
         fetchOptions ==
           [url |-> url,
            method |-> m.verb,
            headers |-> [Authorization |-> Authorization(cli.api_key),
                         ContentType |-> "application/json"],
            body |-> RequestBody(BodyArg(m, ops[i].args))]
     IN  /\ ops' = [ops EXCEPT ![i].sent = Append(@, fetchOptions),
                               ![i].pc = "awaiting"]
         /\ cli' = ClientAfterRequest(cli, url)
  /\ UNCHANGED clientConcOthers

\* fetch of call i settles with r and its request runs to its end.
PFetchSettles(i, r) ==
  /\ ops[i].pc = "awaiting"
  /\ ops' = [ops EXCEPT ![i].fetched = r, ![i].result = RequestOutcome(r),
                        ![i].pc = "settled"]
  /\ UNCHANGED <<cli, clientConcOthers>>

\* The caller of call i has its promise settled.
PComplete(i) ==
  /\ ops[i].pc = "settled"
  /\ ops' = [ops EXCEPT ![i] = NoOp]
  /\ UNCHANGED <<cli, clientConcOthers>>

PApiCall ==
  \E i \in CallIds :
    /\ ops[i].pc = "idle"
    /\ \E m \in {x \in Api : x.name \in ConcMethods} :
         \E a \in ConcArgs(m) : PCallMethod(i, m, a)

PFetchDone ==
  \E i \in CallIds :
    /\ ops[i].pc = "awaiting"
    /\ \E r \in ConcFetchResults : PFetchSettles(i, r)

NextClientConc ==
  \/ NewClient
  \/ PApiCall
  \/ \E i \in CallIds : PValidateCheckout(i)
  \/ \E i \in CallIds : PSendRequest(i)
  \/ PFetchDone
  \/ \E i \in CallIds : PComplete(i)

SpecClientConc == Init /\ [][NextClientConc]_vars

\* ------------------------------------------------------------------ claims
\* The lowercase hex HMAC-SHA256 digest of payload p under key k, as a string.
HexDigestOf(p, k) == Str(HexEncode(HmacSha256(k, p)))

\* C1: a call whose signature is the lowercase hex digest of its payload
\* under its key ends by returning true (not false, not a throw).
C1_DigestAccepted ==
  (pc = "done" /\ signature = HexDigestOf(payload, secretKey))
    => outcome = ReturnTrue

C1_Witness ==
  /\ pc = "done"
  /\ payload # <<>>
  /\ signature = HexDigestOf(payload, secretKey)
  /\ outcome = ReturnTrue

\* C2: a call whose signature differs from the hex digest of its payload
\* under its key never returns true: it returns false or throws.
C2_OtherSignatureRejected ==
  (pc = "done" /\ signature # HexDigestOf(payload, secretKey))
    => outcome \in {ReturnFalse, ThrowInvalid, ThrowRange}

C2_Witness ==
  /\ pc = "done"
  /\ signature.tag = "string"
  /\ Len(signature.chars) = DigestLen
  /\ signature # HexDigestOf(payload, secretKey)
  /\ outcome = ThrowInvalid

\* C3: a call with the empty string as signature returns false and does
\* not throw.
C3_EmptySignatureFalse ==
  (pc = "done" /\ signature = Str(<<>>)) => outcome = ReturnFalse

C3_Witness ==
  /\ pc = "done"
  /\ signature = Str(<<>>)
  /\ payload # <<>>
  /\ outcome = ReturnFalse

\* C4: every call ends by returning a boolean: true when the signature is
\* the digest, false otherwise (never a throw).
C4_AlwaysBoolean ==
  pc = "done" =>
    outcome = (IF signature = HexDigestOf(payload, secretKey)
                 THEN ReturnTrue ELSE ReturnFalse)

\* C5: in a call whose signature is empty or absent no HMAC is computed and
\* no comparison is made, at any point of the call: the call goes from its
\* entry straight to its end.
C5_AbsentNoHashing ==
  (pc # "idle" /\ signature \in {Undefined, Str(<<>>)})
    => /\ pc \in {"entry", "done"}
       /\ hmacSteps = 0
       /\ computedSignature = <<>>
       /\ cmpSteps = 0
       /\ ~cmpCalled

C5_Witness ==
  /\ pc = "done"
  /\ signature \in {Undefined, Str(<<>>)}
  /\ outcome = ReturnFalse
  /\ hmacSteps = 0

\* C6: a non-empty signature whose length is not the 64 characters of the
\* hex digest is rejected as a mismatch ('The signature is invalid.'),
\* whatever its content.
C6_WrongLengthRejected ==
  (/\ pc = "done"
   /\ signature.tag = "string"
   /\ signature.chars # <<>>
   /\ Len(signature.chars) # DigestLen)
    => outcome = ThrowInvalid

C6_Witness ==
  /\ pc = "done"
  /\ signature.tag = "string"
  /\ Len(signature.chars) = DigestLen - 1
  /\ outcome = ThrowInvalid

\* C7: once (p, s, k) has returned true, a call with the same s and k and a
\* payload that differs from p in a single byte does not return true.
C7_PayloadByteChangedRejected ==
  (/\ prev.outcome = ReturnTrue
   /\ pc = "done"
   /\ signature = prev.signature
   /\ secretKey = prev.secretKey
   /\ SingleByteDiff(prev.payload, payload))
    => outcome \in {ReturnFalse, ThrowInvalid, ThrowRange}

C7_Witness ==
  /\ prev.outcome = ReturnTrue
  /\ pc = "done"
  /\ signature = prev.signature
  /\ secretKey = prev.secretKey
  /\ SingleByteDiff(prev.payload, payload)
  /\ outcome = ThrowInvalid

\* Position of the first byte where two buffers of equal length differ
\* (0 when they are equal).
FirstDiff(a, b) ==
  IF a = b THEN 0 ELSE CHOOSE i \in 1..Len(a) :
    a[i] # b[i] /\ \A j \in 1..(i - 1) : a[j] = b[j]

\* C8: for a mismatching signature of the digest's length the comparison
\* visits every byte of the digest, wherever the first differing byte is:
\* the number of byte comparisons is always the digest's length.
C8_ComparisonNeverStopsEarly ==
  (/\ pc = "done"
   /\ hmacSteps > 0
   /\ Len(signatureBuffer) = Len(digest)
   /\ signatureBuffer # digest)
    => cmpCalled /\ cmpSteps = DigestLen

C8_Witness ==
  /\ pc = "done"
  /\ outcome = ThrowInvalid
  /\ Len(signatureBuffer) = Len(digest)
  /\ FirstDiff(digest, signatureBuffer) = 1
  /\ cmpSteps = DigestLen

\* C9: a call with the arguments of an earlier call ends as that call did,
\* whatever calls were made before it or between the two.
C9_Deterministic ==
  (/\ pc = "done"
   /\ prev.outcome # NoOutcome
   /\ payload = prev.payload
   /\ signature = prev.signature
   /\ secretKey = prev.secretKey)
    => outcome = prev.outcome

C9_Witness ==
  /\ pc = "done"
  /\ prev.outcome = ReturnTrue
  /\ payload = prev.payload
  /\ signature = prev.signature
  /\ secretKey = prev.secretKey
  /\ outcome = ReturnTrue

\* C10: no step of a call changes anything observable outside the call: the
\* console holds after the step what it held before.
C10_NoOutput == [][console' = console]_vars

\* What verifySignature(p, s, k) answers when it runs alone (C1, C2, C3).
AloneOutcome(p, s, k) ==
  IF s \in {Undefined, Str(<<>>)} THEN ReturnFalse
  ELSE IF s = HexDigestOf(p, k) THEN ReturnTrue
  ELSE ThrowInvalid

\* C11: with several calls in flight in any interleaving, each call ends as
\* it would alone on its own arguments, and the locals in the frame it uses
\* are those of its own arguments, not of another call.
C11_ConcurrentCallsIndependent ==
  \A i \in CallIds :
    /\ ccalls[i].pc = "done" =>
         ccalls[i].outcome =
           AloneOutcome(ccalls[i].payload, ccalls[i].signature, ccalls[i].secretKey)
    /\ ccalls[i].pc \in {"compare", "log", "return"} =>
         /\ cframes[FrameOf(i)].computedSignature =
              HexEncode(HmacSha256(ccalls[i].secretKey, ccalls[i].payload))
         /\ cframes[FrameOf(i)].signatureBuffer = Utf8(ccalls[i].signature.chars)

\* Two calls with different payloads are past their HMAC step at once, and
\* one of them has returned true.
C11_Witness ==
  /\ ccalls[1].pc = "done"
  /\ ccalls[1].outcome = ReturnTrue
  /\ ccalls[2].pc = "compare"
  /\ ccalls[2].payload # ccalls[1].payload

\* C12: every call that is entered ends, with exactly one of return true,
\* return false or a throw.
C12_CallTerminates ==
  (pc = "entry") ~>
    (pc = "done" /\ outcome \in {ReturnTrue, ReturnFalse, ThrowInvalid, ThrowRange})

C12_Witness ==
  /\ pc = "done"
  /\ outcome = ThrowInvalid
  /\ cmpSteps = DigestLen

\* C13: the handler answers every request with exactly one status: 400 when
\* the signature header is missing or empty, 403 when it is present and is not
\* the HMAC of the raw body, 200 when it is.
C13_OneStatusPerRequest ==
  /\ Len(web.sent) <= 1
  /\ web.pc = "end" =>
       web.sent =
         IF web.header \in {Undefined, Str(<<>>)} THEN <<BadRequest>>
         ELSE IF web.header = HexDigestOf(web.rawBody, API_SECRET_KEY) THEN <<OK>>
         ELSE <<Forbidden>>

\* A request with an empty signature header has been answered.
C13_Witness ==
  /\ web.pc = "end"
  /\ web.header = Str(<<>>)
  /\ web.sent = <<BadRequest>>

\* C14: the event is handled and 200 is sent only after verifySignature has
\* returned true for the request.
C14_EventOnlyAfterVerified ==
  (web.handled \/ web.pc \in {"event", "respond"} \/ web.sent = <<OK>>) =>
    /\ web.verdict = ReturnTrue
    /\ web.header = HexDigestOf(web.rawBody, API_SECRET_KEY)

\* A verified request has had its event handled and 200 sent.
C14_Witness ==
  /\ web.handled
  /\ web.sent = <<OK>>
  /\ web.verdict = ReturnTrue

\* C15: every request issued by a method of the client carries Authorization:
\* Bearer <api_key>, the key given at construction, and Content-Type:
\* application/json.
C15_EveryRequestAuthorized ==
  op.pc # "idle" =>
    \A n \in 1..Len(op.sent) :
      /\ op.sent[n].headers.Authorization = <<"Bearer ", cli.options.api_key>>
      /\ op.sent[n].headers.ContentType = "application/json"

\* A request has been issued by a client constructed with key_B.
C15_Witness ==
  /\ op.pc = "awaiting"
  /\ cli.options.api_key = "key_B"
  /\ Len(op.sent) = 1

\* C16: a call whose response has a status outside 200..299 never resolves;
\* it rejects.
C16_NonOkRejects ==
  (op.pc = "settled" /\ op.fetched.kind = "response"
     /\ ~(op.fetched.status \in 200..299)) =>
    op.result.kind = "rejected"

\* A 404 response with a JSON body has been rejected.
C16_Witness ==
  /\ op.pc = "settled"
  /\ op.fetched.kind = "response"
  /\ op.fetched.status = 404
  /\ op.fetched.json
  /\ op.result.kind = "rejected"

\* C17: a client constructed with mode 'test' sends every request to the test
\* base URL, one constructed with mode 'live' to the live base URL, and the
\* URL is base_url, '/', endpoint.
C17_ModeSelectsBaseUrl ==
  op.pc # "idle" =>
    \A n \in 1..Len(op.sent) :
      LET url == op.sent[n].url IN
        /\ cli.options.mode = "test" => url[1] = CHARGILY_TEST_URL
        /\ cli.options.mode = "live" => url[1] = CHARGILY_LIVE_URL
        /\ url[1] = cli.base_url
        /\ url[2] = "/"
        /\ url[3] = op.method.res
        /\ SubSeq(url, 3, Len(url)) = Endpoint(op.method, op.args)

\* A client in live mode has sent a request for one customer.
C17_Witness ==
  /\ op.pc = "awaiting"
  /\ cli.options.mode = "live"
  /\ op.method.name = "getCustomer"
  /\ op.sent[1].url = <<CHARGILY_LIVE_URL, "/", "customers", "/", "id_1">>

\* The success_url is a URL with the scheme http or https.
IsHttpUrl(s) ==
  \E scheme \in {<<"h", "t", "t", "p", ":", "/", "/">>,
                 <<"h", "t", "t", "p", "s", ":", "/", "/">>} :
    StartsWith(s, scheme) /\ Len(s) > Len(scheme)

CheckoutCall == op.pc # "idle" /\ op.method.name = "createCheckout"

\* C18: createCheckout rejects and issues no request when success_url does not
\* begin with http or https, and it proceeds to the request only for a
\* success_url that is a URL beginning with http or https.
C18_OnlyHttpUrlsProceed ==
  CheckoutCall =>
    LET url == op.args.data.v.success_url IN
      /\ (op.pc = "settled" /\ ~StartsWith(url, <<"h", "t", "t", "p">>)) =>
           (op.result.kind = "rejected" /\ op.sent = <<>>)
      /\ op.sent # <<>> => IsHttpUrl(url)

\* C19: createCheckout (success_url beginning with http) rejects with the
\* items error and issues no request when items is absent and amount or
\* currency is absent; it issues exactly one POST to checkouts when items is
\* present or both amount and currency are present.
C19_ItemsOrAmountAndCurrency ==
  (CheckoutCall /\ op.pc = "settled"
     /\ StartsWith(op.args.data.v.success_url, <<"h", "t", "t", "p">>)) =>
    LET d == op.args.data.v
        noItems == d.items.tag = "undefined"
        noAmount == d.amount.tag = "undefined"
        noCurrency == d.currency.tag = "undefined"
    IN  /\ (noItems /\ (noAmount \/ noCurrency)) =>
             (op.result = Rejected(ItemsRequired) /\ op.sent = <<>>)
        /\ (~noItems \/ (~noAmount /\ ~noCurrency)) =>
             /\ Len(op.sent) = 1
             /\ op.sent[1].method = "POST"
             /\ op.sent[1].url = <<cli.base_url, "/", "checkouts">>

\* C20: every list operation sends a GET whose query string is per_page=<n>,
\* n being the caller's argument, or 10 when the argument is omitted.
C20_ListSendsPerPage ==
  /\ {m.name : m \in {x \in Api : x.list}} =
       {"listCustomers", "listProducts", "listPrices", "listCheckouts",
        "listPaymentLinks", "getProductPrices", "getCheckoutItems",
        "getPaymentLinkItems"}
  /\ (op.pc # "idle" /\ op.method.list) =>
       \A n \in 1..Len(op.sent) :
         LET url == op.sent[n].url
             p == op.args.per_page
         IN  /\ op.sent[n].method = "GET"
             /\ Len(url) >= 4
             /\ SubSeq(url, Len(url) - 2, Len(url)) =
                  <<"?", "per_page=",
                    IF p.tag = "undefined" THEN "10" ELSE ToString(p.v)>>
             /\ \A k \in 1..(Len(url) - 3) : url[k] # "?"

\* getPaymentLinkItems has been called with a per_page of 25 and sent.
C20_Witness ==
  /\ op.pc = "awaiting"
  /\ op.method.name = "getPaymentLinkItems"
  /\ op.args.per_page = Num(25)
  /\ op.sent[1].url[Len(op.sent[1].url)] = "25"

C24_CompareOnlyEqualLengths ==
  /\ cmpCalled => Len(signatureBuffer) = Len(digest)
  /\ outcome # ThrowRange
  /\ (pc \in {"log", "return", "done"} /\ hmacSteps > 0
        /\ Len(signatureBuffer) # Len(digest)) => ~cmpCalled

\* A call whose signature is longer than the digest has been rejected without
\* the comparison.
C24_Witness ==
  /\ pc = "done"
  /\ hmacSteps > 0
  /\ Len(signatureBuffer) > Len(digest)
  /\ ~cmpCalled
  /\ outcome = ThrowInvalid

C21_NoRetry ==
  op.pc # "idle" =>
    /\ Len(op.sent) <= 1
    /\ op.pc \in {"validate", "request"} => (op.sent = <<>> /\ op.fetched = NotFetched)
    /\ op.fetched # NotFetched => (op.pc = "settled" /\ Len(op.sent) = 1)

\* A call whose fetch failed on the network is over, with its one request.
C21_Witness ==
  /\ op.pc = "settled"
  /\ op.fetched.kind = "error"
  /\ op.result.kind = "rejected"
  /\ Len(op.sent) = 1

\* C22: a request carries a body exactly when the method passed one that is
\* not undefined, and the body is the JSON serialization of that data; get,
\* list, delete and expireCheckout requests carry none.
C22_BodyIffSupplied ==
  op.pc # "idle" =>
    \A n \in 1..Len(op.sent) :
      LET m == op.method
          body == op.sent[n].body
      IN  /\ body.tag = "json" <=> (m.body /\ op.args.data.tag # "undefined")
          /\ body.tag # "json" => body.tag = "undefined"
          /\ body.tag = "json" => body.of = op.args.data
          /\ (m.verb \in {"GET", "DELETE"} \/ m.name = "expireCheckout") =>
               body.tag = "undefined"

\* expireCheckout has sent its POST, without a body.
C22_Witness ==
  /\ op.pc = "awaiting"
  /\ op.method.name = "expireCheckout"
  /\ op.sent[1].method = "POST"
  /\ op.sent[1].body.tag = "undefined"

\* C26: when fetch rejects or the response is not 2xx, the call rejects with a
\* message that begins 'Failed to make API request:'; the error 'API request
\* failed with status' is wrapped in it, never surfaced as it is.
C26_FailuresWrapped ==
  (op.pc = "settled" /\ op.fetched # NotFetched
     /\ (op.fetched.kind = "error" \/ ~(op.fetched.status \in 200..299))) =>
    /\ op.result.kind = "rejected"
    /\ op.result.value[1] = FailedPrefix
    /\ op.fetched.kind = "response" =>
         op.result.value[2] = "Error: API request failed with status "

\* A 500 response has been rejected with the wrapped message.
C26_Witness ==
  /\ op.pc = "settled"
  /\ op.fetched.kind = "response"
  /\ op.fetched.status = 500
  /\ op.result.value[1] = FailedPrefix
  /\ op.result.value[3] = "500"

\* C27: when the body of a 2xx response is not JSON, the call rejects with a
\* message that begins 'Failed to make API request:'.
C27_ParseFailureWrapped ==
  (op.pc = "settled" /\ op.fetched.kind = "response"
     /\ op.fetched.status \in 200..299 /\ ~op.fetched.json) =>
    /\ op.result.kind = "rejected"
    /\ op.result.value[1] = FailedPrefix

HttpFoo == <<"h", "t", "t", "p", "f", "o", "o">>

C28_ClientUnchanged ==
  cli.constructed =>
    /\ cli.api_key = cli.options.api_key
    /\ cli.base_url = BaseUrlOf(cli.options.mode)
    /\ \A i \in CallIds :
         ops[i].pc # "idle" =>
           \A n \in 1..Len(ops[i].sent) :
             ops[i].sent[n] =
               [url |-> <<BaseUrlOf(cli.options.mode), "/">>
                          \o Endpoint(ops[i].method, ops[i].args),
                method |-> ops[i].method.verb,
                headers |-> [Authorization |-> <<"Bearer ", cli.options.api_key>>,
                             ContentType |-> "application/json"],
                body |-> IF ops[i].method.body /\ ops[i].args.data.tag # "undefined"
                           THEN JsonStringify(ops[i].args.data) ELSE Absent]

\* Two calls of different methods are in flight at once, after one call has
\* failed on the network: call 2 has sent its request while call 1, started
\* again, awaits its own.
C28_Witness ==
  /\ ops[1].pc = "awaiting"
  /\ ops[2].pc = "settled"
  /\ ops[2].fetched.kind = "error"
  /\ ops[1].method.name = "createCheckout"
  /\ ops[2].method.name = "listProducts"

====
